---- MODULE Spec2Model ----
(***************************************************************************)
(* A model of skoots' evaluation path: the index calculation of the tiled  *)
(* evaluation (lib/utils.py calculate_indexes), the dtype scale lookup     *)
(* (lib/utils.py get_dtype_offset) and the evaluation script (lib/eval.py  *)
(* eval and get_instance).                                                 *)
(***************************************************************************)
EXTENDS Integers, Sequences, FiniteSets, TLC

VARIABLES
    \* calculate_indexes: its four arguments and the list it returns
    pad_size, eval_image_size, image_shape, padded_image_shape, ind,
    \* get_dtype_offset: its two arguments and the scale it returns
    dtype, image_max, scale,
    \* eval: the shape (x, y, z) of the volumes, the three volumes the tiles
    \* are scattered into, the tiles still to come and the last network output
    vol_shape, skeleton, semantic, vectors, iterator, out,
    \* eval: the labeler's id -> points mapping, the ids still to bake, the
    \* label volume
    skeleton_dict, keys, instance_mask,
    \* the get_instance calls made and the stages entered so far
    calls, stage_log,
    \* the voxels of the three volumes a tile has been stored into so far
    written,
    \* the position of the running function or script
    pc

idxVars == <<pad_size, eval_image_size, image_shape, padded_image_shape, ind>>
dtypeVars == <<dtype, image_max, scale>>
evalVars == <<vol_shape, skeleton, semantic, vectors, iterator, out,
              skeleton_dict, keys, instance_mask, calls, stage_log,
              written>>
vars == <<idxVars, dtypeVars, evalVars, pc>>

\* An Optional[Number]: None is the empty tuple, a number v is <<v>>.
None == << >>
Some(v) == <<v>>

(***************************************************************************)
(* Bounds of the model.                                                    *)
(***************************************************************************)
MaxPad == 2
MaxEval == 4
MaxShape == 9

(***************************************************************************)
(* lib/utils.py: calculate_indexes                                         *)
(***************************************************************************)

\* torch.arange(0, image_shape, eval_image_size): 0, e, 2e, ... below image_shape.
ArangeLen(stop, step) == IF stop <= 0 THEN 0 ELSE ((stop - 1) \div step) + 1

ind_list(stop, step) == [k \in 1..ArangeLen(stop, step) |-> (k - 1) * step]

\* The second bound of a loop window, with the halo counted once too often.
LoopZ2_NoMinusOne(z, pad) == z + (2 * pad)

\* z2 = int(z - 1) + (2 * pad_size)
LoopZ2(z, pad) == (z - 1) + (2 * pad)

\* The for loop over ind_list, from position i (1-based; the code's i == 0 is
\* skipped by `continue`), with `acc` the windows appended so far. The loop
\* breaks at the first window that does not end below padded_image_shape.
RECURSIVE LoopWindows(_, _, _, _, _)
LoopWindows(lst, i, pad, padded, acc) ==
    IF i > Len(lst) THEN acc
    ELSE LET z1 == lst[i - 1]
             z2 == LoopZ2(lst[i], pad)
         IN  IF z2 < padded
             THEN LoopWindows(lst, i + 1, pad, padded, Append(acc, <<z1, z2>>))
             ELSE acc

\* The windows after the loop: the two windows of the "ind is empty" branch,
\* or the loop's windows and the one always added at the end.
AfterLoop(loop, pad, e, padded) ==
    IF loop = << >>
    THEN << <<0, e + pad * 2>>, <<padded - (e + pad * 2), padded>> >>
    ELSE Append(loop, <<padded - (e + pad * 2), padded - 1>>)

\* calculate_indexes that forgets the window added at the end.
calculate_indexes_NoTail(pad, e, shape, padded) ==
    IF e + (2 * pad) > shape
    THEN << <<0, shape - 1>> >>
    ELSE LoopWindows(ind_list(shape, e), 2, pad, padded, << >>)

\* calculate_indexes whose early return spans one index too many.
calculate_indexes_LongSingle(pad, e, shape, padded) ==
    IF e + (2 * pad) > shape
    THEN << <<0, shape>> >>
    ELSE AfterLoop(LoopWindows(ind_list(shape, e), 2, pad, padded, << >>),
                   pad, e, padded)

calculate_indexes(pad, e, shape, padded) ==
    IF e + (2 * pad) > shape
    THEN << <<0, shape - 1>> >>
    ELSE AfterLoop(LoopWindows(ind_list(shape, e), 2, pad, padded, << >>),
                   pad, e, padded)

\* The arguments of one call: any halo, any positive window and image size,
\* and an image padded by any amount on both sides.
IdxInit ==
    /\ pad_size \in 0..MaxPad
    /\ eval_image_size \in 1..MaxEval
    /\ image_shape \in 1..MaxShape
    /\ padded_image_shape \in {image_shape + 2 * q : q \in 0..MaxPad}
    /\ ind = << >>
    /\ pc = "call"

CallCalculateIndexes ==
    /\ pc = "call"
    /\ pc' = "return"
    /\ ind' = calculate_indexes(pad_size, eval_image_size, image_shape,
                                padded_image_shape)
    /\ UNCHANGED <<pad_size, eval_image_size, image_shape, padded_image_shape>>
    /\ UNCHANGED <<dtypeVars, evalVars>>

(***************************************************************************)
(* lib/utils.py: get_dtype_offset                                          *)
(***************************************************************************)

encoding ==
    [uint16 |-> 65536, uint8 |-> 256, uint12 |-> 4096, float64 |-> 1]

\* The dtype strings of the calls: the four of the table and some others.
Dtypes == {"uint16", "uint8", "uint12", "float64", "float32", "int32", "int16", "bool"}

\* The observed maxima of the calls, None when the caller passes none.
ImageMaxes ==
    {None} \cup {Some(v) : v \in {0, 1, 2, 100, 255, 256, 257, 1000, 4095, 65535}}

\* Python's truth value of image_max: None and 0 are false.
Truthy(x) == x # None /\ x # Some(0)

get_dtype_offset(dt, imax) ==
    IF dt \in DOMAIN encoding
    THEN Some(encoding[dt])
    ELSE IF Truthy(imax)
         THEN IF imax[1] <= 256 THEN Some(256) ELSE imax
         ELSE None

DtypeInit ==
    /\ dtype \in Dtypes
    /\ image_max \in ImageMaxes
    /\ scale = None
    /\ pc = "call"

CallGetDtypeOffset ==
    /\ pc = "call"
    /\ pc' = "return"
    /\ scale' = get_dtype_offset(dtype, image_max)
    /\ UNCHANGED <<dtype, image_max>>
    /\ UNCHANGED <<idxVars, evalVars>>

(***************************************************************************)
(* lib/eval.py: eval and get_instance                                      *)
(*                                                                         *)
(* Probabilities are counted in tenths (0.5 is 5, a stored True is 10).    *)
(* Voxels are <<x, y, z>>, indices start at 0 as in the code.              *)
(***************************************************************************)
cropsize == <<500, 500, 32>>
overlap == <<30, 30, 6>>

\* pad3d = (5, 5, 30, 30, 30, 30): the last dimension comes first.
pad3d == <<5, 5, 30, 30, 30, 30>>

\* buffer of get_instance: the margin of the crop on all sides of the skeleton.
buffer == <<50, 50, 10>>

min_instance_volume == 183

\* The threshold 0.5 of .gt(0.5), in tenths.
Half == 5

\* A stored True (1.0), in tenths.
One == 10

Axes == 1..3

Min2(a, b) == IF a <= b THEN a ELSE b
Max2(a, b) == IF a >= b THEN a ELSE b
SetMin(S) == CHOOSE x \in S : \A y \in S : x <= y
SetMax(S) == CHOOSE x \in S : \A y \in S : x >= y

\* The trim of line 207: X by pad3d[2]:-pad3d[3], Y by pad3d[4]:-pad3d[5],
\* Z by pad3d[0]:-pad3d[1] (tuples count from 1 here).
PadLo == <<pad3d[3], pad3d[5], pad3d[1]>>
PadHi == <<pad3d[4], pad3d[6], pad3d[2]>>

\* The shapes (x, y, z) of the padded image: one tile, two tiles that overlap
\* along X, two that overlap along Z, two that meet exactly along Z.
ImageShapes ==
    {<<500, 500, 32>>, <<505, 500, 32>>, <<500, 500, 35>>, <<500, 500, 52>>}

\* crops(image, cropsize, overlap), one axis: windows of the full size that
\* advance by size - 2 * halo, and one more snapped to the end of the axis.
AxisOrigins(len, size, halo) ==
    {k * (size - 2 * halo) : k \in 0..((len - size) \div (size - 2 * halo))}
        \cup {len - size}

LexLess(u, v) ==
    \/ u[1] < v[1]
    \/ u[1] = v[1] /\ u[2] < v[2]
    \/ u[1] = v[1] /\ u[2] = v[2] /\ u[3] < v[3]

RECURSIVE SortedSeq(_)
SortedSeq(S) ==
    IF S = {} THEN << >>
    ELSE LET m == CHOOSE u \in S : \A v \in S \ {u} : LexLess(u, v)
         IN  <<m>> \o SortedSeq(S \ {m})

\* The origins (x, y, z) of the tiles that crops yields, in order.
crops(shape) ==
    SortedSeq(AxisOrigins(shape[1], cropsize[1], overlap[1])
                  \X AxisOrigins(shape[2], cropsize[2], overlap[2])
                  \X AxisOrigins(shape[3], cropsize[3], overlap[3]))

\* The indices of one axis the model follows: the two on either side of every
\* boundary of a tile's interior and of the trim.
AxisSample(shape, a) ==
    {c \in UNION {{o + overlap[a] - 1, o + overlap[a],
                   o + cropsize[a] - overlap[a] - 1, o + cropsize[a] - overlap[a]} :
                      o \in AxisOrigins(shape[a], cropsize[a], overlap[a])}
            \cup {PadLo[a] - 1, PadLo[a],
                  shape[a] - PadHi[a] - 1, shape[a] - PadHi[a]} :
        0 <= c /\ c < shape[a]}

\* The voxels of a volume of the given shape that the model follows.
Voxels(shape) ==
    AxisSample(shape, 1) \X AxisSample(shape, 2) \X AxisSample(shape, 3)

\* torch.zeros(size=(1, x, y, z)) and torch.zeros((3, x, y, z))
Zeros(dom) == [d \in dom |-> 0]
Zeros3(dom) == [d \in dom |-> <<0, 0, 0>>]

\* The tile-local voxels where a network output may peak: the first and the
\* last voxel of the interior, and a voxel of the halo next to each.
HotLocal ==
    {overlap,
     <<overlap[1] - 1, overlap[2], overlap[3]>>,
     <<cropsize[1] - overlap[1] - 1, cropsize[2] - overlap[2] - 1,
       cropsize[3] - overlap[3] - 1>>,
     <<cropsize[1] - overlap[1] - 1, cropsize[2] - overlap[2] - 1,
       cropsize[3] - overlap[3]>>}

\* out = model(slice): the outputs of the network for one tile, each fixed by
\* the voxel where it peaks.
Outputs == [hot : HotLocal]

\* skeleton_map = out[:, [-2], ...] at tile-local voxel l
OutSkel(o, l) == IF l = o.hot THEN 8 ELSE (l[1] + l[2] + l[3]) % 6

\* probability_map = out[:, [-1], ...] at tile-local voxel l
OutSem(o, l) == IF l = o.hot THEN 9 ELSE (l[1] + 2 * l[2] + 3 * l[3]) % 10

\* vec = out[:, 0:3:1, ...] at tile-local voxel l
OutVec(o, l) == <<(l[1] % 3) - 1, (l[2] % 3) - 1, (l[3] % 3) - 1>>

\* The destination slice of the scatter on axis a, for a tile at `origin`:
\* origin + overlap : origin + cropsize - overlap, cut at the end of the axis
\* as Python cuts a slice.
\* The destination slice started at the tile's origin, halo included.
DestLo_NoHalo(origin, a) == origin[a]

DestLo(origin, a) == origin[a] + overlap[a]
DestHi(origin, a) ==
    Min2(origin[a] + cropsize[a] - overlap[a], vol_shape[a])

\* The source slice of the scatter on axis a: overlap : -overlap of a tile of
\* cropsize voxels.
SrcLo(a) == overlap[a]
SrcHi(a) == cropsize[a] - overlap[a]

\* The tile-local voxel whose value the slice assignment stores at d: the
\* two slices are matched element by element from their starts.
SrcIndex(d, origin) ==
    [a \in Axes |-> SrcLo(a) + (d[a] - DestLo(origin, a))]

\* Voxel d is written: it lies in the destination slice and its element of
\* the source slice exists.
InDest(d, origin) ==
    \A a \in Axes :
        /\ DestLo(origin, a) <= d[a] /\ d[a] < DestHi(origin, a)
        /\ SrcIndex(d, origin)[a] < SrcHi(a)

\* The voxels of dom that the slice assignments of one tile store into.
Dest(dom, origin) == {d \in dom : InDest(d, origin)}

\* .gt(0.5), stored into a float tensor
Gt(v) == IF v > Half THEN One ELSE 0

\* skeleton[dest slice] = skeleton_map[source slice].gt(0.5)
ScatterSkeleton(vol, origin, o) ==
    [d \in DOMAIN vol |->
        IF InDest(d, origin) THEN Gt(OutSkel(o, SrcIndex(d, origin)))
        ELSE vol[d]]

\* vectors[dest slice] = vec[source slice]
ScatterVectors(vol, origin, o) ==
    [d \in DOMAIN vol |->
        IF InDest(d, origin) THEN OutVec(o, SrcIndex(d, origin)) ELSE vol[d]]

\* semantic[dest slice] = probability_map[source slice]
ScatterSemantic(vol, origin, o) ==
    [d \in DOMAIN vol |->
        IF InDest(d, origin) THEN OutSem(o, SrcIndex(d, origin)) ELSE vol[d]]


\* vol[..., lo:-hi, ...] on every axis: the kept voxels, counted from the
\* first kept one.
Trim(vol, shape) ==
    [d \in {<<v[1] - PadLo[1], v[2] - PadLo[2], v[3] - PadLo[3]>> :
              v \in {u \in DOMAIN vol :
                       \A a \in Axes : PadLo[a] <= u[a]
                                       /\ u[a] < shape[a] - PadHi[a]}} |->
        vol[<<d[1] + PadLo[1], d[2] + PadLo[2], d[3] + PadLo[3]>>]]

\* The kept voxels of a set of voxels, counted from the first kept one.
TrimSet(S, shape) ==
    {<<v[1] - PadLo[1], v[2] - PadLo[2], v[3] - PadLo[3]>> :
        v \in {u \in S : \A a \in Axes : PadLo[a] <= u[a]
                                          /\ u[a] < shape[a] - PadHi[a]}}

TrimShape(shape) == [a \in Axes |-> shape[a] - PadLo[a] - PadHi[a]]

\* efficient_flood_fill: the connected components (26 neighbours) of the
\* true voxels, each under an id of its own, counted from 1.
Abs(n) == IF n < 0 THEN -n ELSE n
Adjacent(u, v) == \A a \in Axes : Abs(u[a] - v[a]) <= 1

RECURSIVE Grow(_, _)
Grow(C, S) ==
    LET N == {v \in S \ C : \E u \in C : Adjacent(u, v)}
    IN  IF N = {} THEN C ELSE Grow(C \cup N, S)

Components(S) == {Grow({v}, S) : v \in S}

\* The id -> points mappings the labeler may return for the true voxels S.
Labelings(S) ==
    {f \in [1..Cardinality(Components(S)) -> Components(S)] :
        \A i, j \in DOMAIN f : i # j => f[i] # f[j]}

\* The keys of a dict, in insertion order.
RECURSIVE Keys(_, _)
Keys(f, i) ==
    IF i \notin DOMAIN f THEN << >> ELSE <<i>> \o Keys(f, i + 1)

\* Lines 56-57: .min(0) and .max(0) over no points raise.
Raises(points) == points = {}

\* ind_min = (skeleton - buffer).clamp(0).min(0)[0]
IndMin(points) ==
    [a \in Axes |-> SetMin({Max2(p[a] - buffer[a], 0) : p \in points})]

\* The crop's end left as the largest point plus the margin, not clamped.
IndMax_NoClamp(points, shape) ==
    [a \in Axes |-> SetMax({p[a] + buffer[a] : p \in points})]

\* ind_max = skeleton + buffer, each column clamped to (0, vectors.shape),
\* then .max(0)[0]
IndMax(points, shape) ==
    [a \in Axes |->
        SetMax({Min2(Max2(p[a] + buffer[a], 0), shape[a]) : p \in points})]

\* The shape of vectors[:, ind_min[0]:ind_max[0], ...]
CropShape(lo, hi) == [a \in Axes |-> Max2(hi[a] - lo[a], 0)]

\* The position of crop voxel l in the crop's memory (the last axis runs
\* fastest).
Rank(l, cshape) == (l[1] * cshape[2] + l[2]) * cshape[3] + l[3]

\* prob = baked_embed_to_prob(...)[0].gt(thr).mul(id).squeeze(): the voxels
\* of the crop that get the id are `n` voxels in a row from position `s` of
\* the crop's memory.
RunLengths == {min_instance_volume - 1, min_instance_volume,
               min_instance_volume + 1, 6000}

Probs(points, lo, hi) ==
    LET cshape == CropShape(lo, hi)
        total == cshape[1] * cshape[2] * cshape[3]
        r0 == SetMin({Rank([a \in Axes |-> p[a] - lo[a]], cshape) : p \in points})
    IN  {pr \in [s : {0, r0, Max2(r0 - (min_instance_volume - 1), 0)},
                 n : RunLengths] : pr.s + pr.n <= total}

\* index = prob == id, at crop voxel l
Index(pr, l, cshape) ==
    /\ \A a \in Axes : 0 <= l[a] /\ l[a] < cshape[a]
    /\ pr.s <= Rank(l, cshape) /\ Rank(l, cshape) < pr.s + pr.n

\* torch.sum(index)
IndexSum(pr) == pr.n

\* A test that accepts every candidate.
Accepted_Always(count) == TRUE

\* if torch.sum(index) > min_instance_volume
Accepted(count) == count > min_instance_volume

\* A write that adds the id to what the voxel holds.
BakeValue_Accumulate(old, id) == old + id

\* A write that keeps the id a voxel already holds.
BakeValue_KeepFirst(old, id) == IF old = 0 THEN id ELSE old

\* What the accepted branch stores at a voxel of index: prob[index], the id.
BakeValue(old, id) == id

\* The label volume after the two branches of lines 87-98 for one call.
BakeWrite(mask, id, lo, hi, pr) ==
    [d \in DOMAIN mask |->
        IF Index(pr, [a \in Axes |-> d[a] - lo[a]], CropShape(lo, hi))
        THEN IF Accepted(IndexSum(pr)) THEN BakeValue(mask[d], id) ELSE 0
        ELSE mask[d]]

\* The probability computed before the crop is embedded.
GetInstanceStages_ProbFirst == <<"Baking", "Embedding">>

\* The stages one get_instance call goes through: vector_to_embedding on the
\* crop (line 70), then the probability and the write (lines 76-98).
GetInstanceStages == <<"Embedding", "Baking">>

\* eval is entered with the padded image (line 128); nothing is allocated yet.
EvalInit ==
    /\ pc = "init"
    /\ vol_shape \in ImageShapes
    /\ skeleton = << >> /\ semantic = << >> /\ vectors = << >>
    /\ iterator = << >> /\ out = None
    /\ skeleton_dict = << >> /\ keys = << >>
    /\ instance_mask = << >> /\ calls = << >>
    /\ stage_log = <<"Init">>
    /\ written = {}

\* Lines 141-167: the three zero volumes of the padded shape and the iterator
\* over the tiles.
Allocate ==
    /\ pc = "init"
    /\ skeleton' = Zeros(Voxels(vol_shape))
    /\ semantic' = Zeros(Voxels(vol_shape))
    /\ vectors' = Zeros3(Voxels(vol_shape))
    /\ iterator' = crops(vol_shape)
    /\ pc' = "tiling"
    /\ stage_log' = Append(stage_log, "Tiling")
    /\ UNCHANGED <<vol_shape, out, skeleton_dict, keys, instance_mask, calls,
                   written>>
    /\ UNCHANGED <<idxVars, dtypeVars>>

\* Lines 170-203: one pass of the loop over the tiles: the network's output
\* for the tile and the three slice assignments.
TileStep ==
    /\ pc = "tiling"
    /\ iterator # << >>
    /\ \E o \in Outputs :
        LET origin == Head(iterator) IN
        /\ out' = Some(o)
        /\ skeleton' = ScatterSkeleton(skeleton, origin, o)
        /\ vectors' = ScatterVectors(vectors, origin, o)
        /\ semantic' = ScatterSemantic(semantic, origin, o)
        /\ written' = written \cup Dest(DOMAIN skeleton, origin)
    /\ iterator' = Tail(iterator)
    /\ UNCHANGED <<pc, vol_shape, skeleton_dict, keys, instance_mask, calls,
                   stage_log>>
    /\ UNCHANGED <<idxVars, dtypeVars>>

\* Lines 205-209: the loop is over, the padding is trimmed off the volumes.
Unpad ==
    /\ pc = "tiling"
    /\ iterator = << >>
    /\ skeleton' = Trim(skeleton, vol_shape)
    /\ semantic' = Trim(semantic, vol_shape)
    /\ vectors' = Trim(vectors, vol_shape)
    /\ vol_shape' = TrimShape(vol_shape)
    /\ written' = TrimSet(written, vol_shape)
    /\ pc' = "labeling"
    /\ stage_log' = Append(stage_log, "Stitching")
    /\ UNCHANGED <<iterator, out, skeleton_dict, keys, instance_mask, calls>>
    /\ UNCHANGED <<idxVars, dtypeVars>>

\* Lines 216-244: the skeleton is masked by the semantic mask and labelled by
\* efficient_flood_fill; the vectors are masked and the label volume is
\* allocated.
Label ==
    /\ pc = "labeling"
    /\ LET masked == [d \in DOMAIN skeleton |->
                         IF semantic[d] > Half THEN skeleton[d] ELSE 0]
           true == {d \in DOMAIN masked : masked[d] # 0 /\ semantic[d] > Half}
       IN  \E f \in Labelings(true) :
            /\ skeleton_dict' = f
            /\ skeleton' = [d \in DOMAIN masked |->
                               IF d \in true
                               THEN CHOOSE i \in DOMAIN f : d \in f[i]
                               ELSE 0]
            /\ keys' = Keys(f, 1)
    /\ vectors' = [d \in DOMAIN vectors |->
                      IF semantic[d] > Half THEN vectors[d] ELSE <<0, 0, 0>>]
    /\ instance_mask' = Zeros(DOMAIN semantic)
    /\ pc' = "baking"
    /\ stage_log' = Append(stage_log, "Labeling")
    /\ UNCHANGED <<vol_shape, semantic, iterator, out, calls, written>>
    /\ UNCHANGED <<idxVars, dtypeVars>>

\* Lines 246-247 and get_instance: the next id of skeleton_dict is baked into
\* the label volume.
Bake ==
    /\ pc = "baking"
    /\ keys # << >>
    /\ ~Raises(skeleton_dict[Head(keys)])
    /\ LET k == Head(keys)
           lo == IndMin(skeleton_dict[k])
           hi == IndMax(skeleton_dict[k], vol_shape)
       IN  \E pr \in Probs(skeleton_dict[k], lo, hi) :
            /\ instance_mask' = BakeWrite(instance_mask, k, lo, hi, pr)
            /\ calls' = Append(calls, [id |-> k, lo |-> lo, hi |-> hi, pr |-> pr])
    /\ keys' = Tail(keys)
    /\ stage_log' = stage_log \o GetInstanceStages
    /\ UNCHANGED <<pc, vol_shape, skeleton, semantic, vectors, iterator, out,
                   skeleton_dict, written>>
    /\ UNCHANGED <<idxVars, dtypeVars>>

\* A label volume that lost what the earlier calls had written.
MaskAtRaise_Cleared(mask) == Zeros(DOMAIN mask)

\* The label volume when line 56 raises: lines 88-98 were not reached.
MaskAtRaise(mask) == mask

\* Lines 246-247 and get_instance, lines 48-56: the next id of skeleton_dict
\* has no points; .min(0) raises and the loop ends with it.
GetInstanceFails ==
    /\ pc = "baking"
    /\ keys # << >>
    /\ Raises(skeleton_dict[Head(keys)])
    /\ pc' = "error"
    /\ instance_mask' = MaskAtRaise(instance_mask)
    /\ UNCHANGED <<vol_shape, skeleton, semantic, vectors, iterator, out,
                   skeleton_dict, keys, calls, stage_log, written>>
    /\ UNCHANGED <<idxVars, dtypeVars>>

\* Lines 249-252: every id is baked, the label volume is saved.
Finish ==
    /\ pc = "baking"
    /\ keys = << >>
    /\ pc' = "done"
    /\ stage_log' = Append(stage_log, "Done")
    /\ UNCHANGED <<vol_shape, skeleton, semantic, vectors, iterator, out,
                   skeleton_dict, keys, instance_mask, calls, written>>
    /\ UNCHANGED <<idxVars, dtypeVars>>

(***************************************************************************)
(* Specifications                                                          *)
(***************************************************************************)
IdxIdle ==
    /\ pad_size = 0 /\ eval_image_size = 1 /\ image_shape = 1
    /\ padded_image_shape = 1 /\ ind = << >>

DtypeIdle == dtype = "uint16" /\ image_max = None /\ scale = None

EvalIdle ==
    /\ vol_shape = <<0, 0, 0>>
    /\ skeleton = << >> /\ semantic = << >> /\ vectors = << >>
    /\ iterator = << >> /\ out = None
    /\ skeleton_dict = << >> /\ keys = << >>
    /\ instance_mask = << >> /\ calls = << >>
    /\ stage_log = << >>
    /\ written = {}

InitIdx == IdxInit /\ DtypeIdle /\ EvalIdle
NextIdx == CallCalculateIndexes
SpecIdx == InitIdx /\ [][NextIdx]_vars

InitDtype == DtypeInit /\ IdxIdle /\ EvalIdle
NextDtype == CallGetDtypeOffset
SpecDtype == InitDtype /\ [][NextDtype]_vars

\* The shapes (x, y, z) of the vectors passed to get_instance: on every axis
\* one of them is wider than twice the margin and the other is not.
BakeShapes == {<<120, 60, 25>>, <<30, 110, 8>>}

\* The skeleton points followed in a volume: its first, middle and last
\* voxel, and two that mix them.
BakePoints(shape) ==
    LET last == [a \in Axes |-> shape[a] - 1]
        mid == [a \in Axes |-> shape[a] \div 2]
    IN  {<<0, 0, 0>>, mid, last,
         <<0, last[2], mid[3]>>, <<mid[1], 0, last[3]>>}

\* The id -> points mappings passed to the baking loop: one or two ids, the
\* points of an id are none, one or two, and no point is under two ids.
BakeDicts(shape) ==
    LET sets == {P \in SUBSET BakePoints(shape) : Cardinality(P) <= 2}
    IN  {f \in UNION {[1..n -> sets] : n \in 1..2} :
            \A i, j \in DOMAIN f : i # j => f[i] \cap f[j] = {}}

\* The baking loop is entered (line 246) with a zero label volume and a
\* mapping from ids to points; the volumes of the earlier stages are not
\* read by the model's get_instance and are left out.
BakeInit ==
    /\ pc = "baking"
    /\ vol_shape \in BakeShapes
    /\ skeleton_dict \in BakeDicts(vol_shape)
    /\ keys = Keys(skeleton_dict, 1)
    /\ instance_mask = Zeros(BakePoints(vol_shape))
    /\ skeleton = << >> /\ semantic = << >> /\ vectors = << >>
    /\ iterator = << >> /\ out = None
    /\ calls = << >>
    /\ stage_log = << >>
    /\ written = {}

InitBake == BakeInit /\ IdxIdle /\ DtypeIdle
NextBake ==
    \/ Bake
    \/ GetInstanceFails
    \/ Finish
SpecBake == InitBake /\ [][NextBake]_vars

InitEval == EvalInit /\ IdxIdle /\ DtypeIdle
NextEval ==
    \/ Allocate
    \/ TileStep
    \/ Unpad
    \/ Label
    \/ Bake
    \/ Finish
SpecEval == InitEval /\ [][NextEval]_vars

(***************************************************************************)
(* Claims about calculate_indexes                                          *)
(***************************************************************************)
Returned == pc = "return"

\* The indices of window w that remain once the halo is trimmed on both sides.
Interior(w, pad) == (w[1] + pad)..(w[2] - pad)

\* The call tiles: the window with both halos fits the image, and the padded
\* shape is the image's with the halo added on both sides.
ValidTiling ==
    /\ eval_image_size + 2 * pad_size <= image_shape
    /\ padded_image_shape = image_shape + 2 * pad_size

\* The "ind is empty" branch ran: the loop produced no window.
FallbackTaken == ind[1] = <<0, eval_image_size + pad_size * 2>>

\* C1: for a tiling call, every index of the un-padded image, pad_size to
\* padded_image_shape - pad_size - 1, lies in the trimmed interior of at
\* least one returned window.
C1_CoverageNoneMissed ==
    (Returned /\ ValidTiling) =>
        \A k \in pad_size..(padded_image_shape - pad_size - 1) :
            \E j \in 1..Len(ind) : k \in Interior(ind[j], pad_size)

\* A tiling call with a halo, two loop windows and an uneven remainder.
C1_Witness ==
    /\ Returned /\ ValidTiling
    /\ pad_size > 0 /\ Len(ind) >= 3
    /\ image_shape % eval_image_size # 0

\* C2 as stated: the trimmed interiors of any two returned windows are
\* disjoint, the window added at the end included.
C2_AllInteriorsDisjoint ==
    (Returned /\ ValidTiling) =>
        \A i, j \in 1..Len(ind) :
            ind[i] # ind[j] =>
                Interior(ind[i], pad_size) \cap Interior(ind[j], pad_size) = {}

\* C2 amended: the interiors of the windows before the last are pairwise
\* disjoint. The last returned window's interior meets no interior but that
\* of the window before it, and meets that one exactly when image_shape is
\* not a multiple of eval_image_size (in eval_image_size - image_shape %
\* eval_image_size indices) or the "ind is empty" branch ran (whose two
\* windows have the same interior start).
C2_LoopInteriorsDisjoint ==
    (Returned /\ ValidTiling) =>
        LET n == Len(ind)
            last == Interior(ind[n], pad_size)
            rem == image_shape % eval_image_size
        IN  /\ n >= 2
            /\ \A i, j \in 1..(n - 1) :
                   i # j => Interior(ind[i], pad_size)
                                \cap Interior(ind[j], pad_size) = {}
            /\ \A i \in 1..(n - 1) :
                   (Interior(ind[i], pad_size) \cap last # {})
                       <=> (i = n - 1 /\ (rem # 0 \/ FallbackTaken))
            /\ (rem # 0) =>
                   Cardinality(Interior(ind[n - 1], pad_size) \cap last)
                       = eval_image_size - rem

\* A tiling call whose last window overlaps the loop's last window, after
\* at least two loop windows.
C2_Witness ==
    /\ Returned /\ ValidTiling
    /\ Len(ind) >= 3
    /\ image_shape % eval_image_size # 0
    /\ Interior(ind[Len(ind) - 1], pad_size)
           \cap Interior(ind[Len(ind)], pad_size) # {}

\* C3: when the window with both halos exceeds the image, exactly one window
\* is returned, from 0 to image_shape - 1, whatever padded_image_shape is.
C3_SingleWindow ==
    (Returned /\ eval_image_size + 2 * pad_size > image_shape) =>
        ind = << <<0, image_shape - 1>> >>

\* The early return with a padded shape that is not image_shape + 2 * pad_size.
C3_Witness ==
    /\ Returned
    /\ eval_image_size + 2 * pad_size > image_shape
    /\ padded_image_shape # image_shape + 2 * pad_size
    /\ image_shape > 1
    /\ Len(ind) = 1

\* C4: without the early return every returned window has the width
\* eval_image_size + 2 * pad_size, starts at or after 0 and ends at or before
\* padded_image_shape - 1.
C4_UniformWidth ==
    (Returned /\ eval_image_size + 2 * pad_size <= image_shape) =>
        \A j \in 1..Len(ind) :
            /\ ind[j][2] - ind[j][1] + 1 = eval_image_size + 2 * pad_size
            /\ ind[j][1] >= 0
            /\ ind[j][2] <= padded_image_shape - 1

(***************************************************************************)
(* Claims about get_dtype_offset                                           *)
(***************************************************************************)

\* C10: the four dtypes of the table get their fixed scale whatever
\* image_max is, and every other dtype gets a positive scale (256 when
\* image_max <= 256, image_max otherwise, so that image_max / scale is in
\* [0, 1]), also when image_max is None or 0.
C10_DtypeScale ==
    Returned =>
        /\ dtype = "uint8" => scale = Some(256)
        /\ dtype = "uint16" => scale = Some(65536)
        /\ dtype = "uint12" => scale = Some(4096)
        /\ dtype = "float64" => scale = Some(1)
        /\ dtype \notin {"uint8", "uint16", "uint12", "float64"} =>
               /\ scale # None
               /\ scale[1] > 0
               /\ image_max # None =>
                      /\ scale[1] = IF image_max[1] <= 256 THEN 256
                                    ELSE image_max[1]
                      /\ 0 <= image_max[1] /\ image_max[1] <= scale[1]

(***************************************************************************)
(* Claims about eval's tiling loop                                         *)
(***************************************************************************)

\* A step of the loop over the tiles: one tile leaves the iterator.
IsTileStep ==
    /\ pc = "tiling" /\ pc' = "tiling"
    /\ Len(iterator') = Len(iterator) - 1

\* Voxel d lies in [origin + overlap, origin + cropsize - overlap) on every
\* axis.
InInterior(d, origin) ==
    \A a \in Axes :
        /\ origin[a] + overlap[a] <= d[a]
        /\ d[a] < origin[a] + cropsize[a] - overlap[a]

Local(d, origin) == <<d[1] - origin[1], d[2] - origin[2], d[3] - origin[3]>>

\* The origin of the tile the loop handled last.
LastOrigin == crops(vol_shape)[Len(crops(vol_shape)) - Len(iterator)]

\* C5 as stated: a tile at `origin` writes the three volumes exactly in
\* [origin + overlap, origin + cropsize - overlap) on every axis, stores
\* there the tile's output at d - origin, and leaves every other voxel as
\* it was.
C5_InteriorStoresOutput ==
    [][IsTileStep =>
        LET origin == Head(iterator)
            o == out'[1]
        IN  \A d \in DOMAIN skeleton :
                IF InInterior(d, origin)
                THEN /\ skeleton'[d] = OutSkel(o, Local(d, origin))
                     /\ vectors'[d] = OutVec(o, Local(d, origin))
                     /\ semantic'[d] = OutSem(o, Local(d, origin))
                ELSE /\ skeleton'[d] = skeleton[d]
                     /\ vectors'[d] = vectors[d]
                     /\ semantic'[d] = semantic[d]]_vars

\* C5 amended: as stated for the vectors and semantic volumes; the skeleton
\* volume gets, at d, 1 when the tile's skeleton output at d - origin
\* exceeds 0.5 and 0 otherwise, not the output itself.
C5_InteriorOnly ==
    [][IsTileStep =>
        LET origin == Head(iterator)
            o == out'[1]
        IN  \A d \in DOMAIN skeleton :
                IF InInterior(d, origin)
                THEN /\ skeleton'[d] = IF OutSkel(o, Local(d, origin)) > Half
                                       THEN One ELSE 0
                     /\ vectors'[d] = OutVec(o, Local(d, origin))
                     /\ semantic'[d] = OutSem(o, Local(d, origin))
                ELSE /\ skeleton'[d] = skeleton[d]
                     /\ vectors'[d] = vectors[d]
                     /\ semantic'[d] = semantic[d]]_vars

\* The second of two tiles was written, its output peaked in its halo; the
\* peak did not reach the volumes and the interior holds the tile's output.
C5_Witness ==
    /\ pc = "tiling" /\ out # None
    /\ Len(crops(vol_shape)) = 2 /\ iterator = << >>
    /\ out[1].hot[1] = overlap[1] - 1
    /\ LET h == <<LastOrigin[1] + out[1].hot[1], LastOrigin[2] + out[1].hot[2],
                  LastOrigin[3] + out[1].hot[3]>>
       IN  h \in DOMAIN skeleton /\ skeleton[h] = 0 /\ semantic[h] # 9
    /\ \E d \in DOMAIN semantic :
           /\ InInterior(d, LastOrigin)
           /\ semantic[d] = OutSem(out[1], Local(d, LastOrigin))
           /\ semantic[d] # 0

(***************************************************************************)
(* Claims about get_instance and the baking loop                           *)
(***************************************************************************)

\* Voxel d of the label volume was assigned by call c (prob == id there).
Assigned(c, d) ==
    Index(c.pr, [a \in Axes |-> d[a] - c.lo[a]], CropShape(c.lo, c.hi))

\* The number of voxels call c assigned.
Count(c) == c.pr.n

\* C6: once every id is baked, no voxel of the label volume holds an id whose
\* number of assigned voxels was below min_instance_volume.
C6_SmallInstanceAbsent ==
    pc = "done" =>
        \A i \in 1..Len(calls) :
            Count(calls[i]) < min_instance_volume =>
                \A d \in DOMAIN instance_mask : instance_mask[d] # calls[i].id

\* The loop is over; a candidate below the minimum had assigned a followed
\* voxel, and an accepted id is in the volume.
C6_Witness ==
    /\ pc = "done"
    /\ \E i \in 1..Len(calls) :
           /\ Count(calls[i]) < min_instance_volume
           /\ \E d \in DOMAIN instance_mask : Assigned(calls[i], d)
    /\ \E d \in DOMAIN instance_mask : instance_mask[d] # 0

\* C7: a candidate is discarded only below min_instance_volume: right after
\* a call that assigned min_instance_volume voxels or more, every assigned
\* voxel (crop index + ind_min) holds the id.
C7_AcceptedAtThreshold ==
    Len(calls) >= 1 =>
        LET c == calls[Len(calls)]
        IN  Count(c) >= min_instance_volume =>
                \A d \in DOMAIN instance_mask :
                    Assigned(c, d) => instance_mask[d] = c.id

\* The baking loop run again over the recorded calls, on label volume `mask`.
RECURSIVE Rebake(_, _)
Rebake(cs, mask) ==
    IF cs = << >> THEN mask
    ELSE Rebake(Tail(cs),
                BakeWrite(mask, cs[1].id, cs[1].lo, cs[1].hi, cs[1].pr))

\* C8: right after two successive accepted calls j and k, every voxel both
\* assigned holds k; and the loop run again over the same ids in the same
\* order, on a fresh volume or on its own result, gives the same volume.
C8_LastWriterWins ==
    /\ Len(calls) >= 2 =>
           LET j == calls[Len(calls) - 1]
               k == calls[Len(calls)]
           IN  (Count(j) > min_instance_volume /\ Count(k) > min_instance_volume)
                   => \A d \in DOMAIN instance_mask :
                          (Assigned(j, d) /\ Assigned(k, d))
                              => instance_mask[d] = k.id
    /\ pc = "done" =>
           /\ Rebake(calls, Zeros(DOMAIN instance_mask)) = instance_mask
           /\ Rebake(calls, instance_mask) = instance_mask

\* Two accepted calls assigned a common followed voxel, and the run is over.
C8_Witness ==
    /\ pc = "done" /\ Len(calls) = 2
    /\ Count(calls[1]) > min_instance_volume
    /\ Count(calls[2]) > min_instance_volume
    /\ \E d \in DOMAIN instance_mask :
           /\ Assigned(calls[1], d) /\ Assigned(calls[2], d)
           /\ instance_mask[d] = calls[2].id

(***************************************************************************)
(* Claims about the order of eval's stages                                 *)
(***************************************************************************)
Before(stage, j) == \E i \in 1..(j - 1) : stage_log[i] = stage

Ordered(rank) ==
    \A i, j \in DOMAIN stage_log :
        i < j => rank[stage_log[i]] <= rank[stage_log[j]]

\* The order of the stages as the design states it.
DesignRank ==
    [Init |-> 0, Tiling |-> 1, Stitching |-> 2, Embedding |-> 3,
     Labeling |-> 4, Baking |-> 5, Done |-> 6]

\* The order of the stages in the code: the embedding belongs to the baking
\* of each id.
CodeRank ==
    [Init |-> 0, Tiling |-> 1, Stitching |-> 2, Labeling |-> 3,
     Embedding |-> 4, Baking |-> 4, Done |-> 5]

C12_ZeroOrCalledId ==
    pc \in {"baking", "done", "error"} =>
        \A d \in DOMAIN instance_mask :
            \/ instance_mask[d] = 0
            \/ \E i \in 1..Len(calls) : calls[i].id = instance_mask[d]

\* Two calls were made, both accepted on common voxels, and both ids are in
\* the volume.
C12_Witness ==
    /\ Len(calls) = 2
    /\ \E d \in DOMAIN instance_mask :
           Assigned(calls[1], d) /\ Assigned(calls[2], d)
    /\ \E d \in DOMAIN instance_mask : instance_mask[d] = calls[1].id
    /\ \E d \in DOMAIN instance_mask : instance_mask[d] = calls[2].id

\* A step of the baking loop: one get_instance call returns.
IsBakeStep == Len(calls') = Len(calls) + 1

\* C15: a get_instance call whose candidate is rejected (count not above
\* min_instance_volume) leaves every voxel that holds the id of an earlier
\* accepted call as it was.
C15_RejectionKeepsEarlier ==
    [][(IsBakeStep /\ Count(calls'[Len(calls')]) <= min_instance_volume) =>
        \A d \in DOMAIN instance_mask :
            (\E i \in 1..Len(calls) :
                 /\ calls[i].id = instance_mask[d]
                 /\ Count(calls[i]) > min_instance_volume)
                => instance_mask'[d] = instance_mask[d]]_vars

(***************************************************************************)
(* Claims about the volumes after the trim                                 *)
(***************************************************************************)

\* C14: with pad3d, cropsize and overlap as eval sets them, every voxel of
\* the skeleton, semantic and vectors volumes that remains after the trim
\* was stored into by at least one tile.
C14_KeptVoxelsWritten ==
    pc \in {"labeling", "baking", "done"} =>
        /\ DOMAIN skeleton \subseteq written
        /\ DOMAIN semantic \subseteq written
        /\ DOMAIN vectors \subseteq written

(***************************************************************************)
(* Claims about the crop of get_instance                                   *)
(***************************************************************************)

\* The next get_instance call is for an id that has no points.
NextIsEmpty ==
    pc = "baking" /\ keys # << >> /\ skeleton_dict[Head(keys)] = {}

\* C11: a get_instance call whose skeleton has no points ends in an error
\* and leaves the label volume as it was before the call.
C11_EmptyFailsBeforeWrite ==
    [][NextIsEmpty => (pc' = "error" /\ instance_mask' = instance_mask
                       /\ calls' = calls)]_vars

\* The call for the second id ended in an error, its points are none, and
\* the label volume still holds what the first call wrote.
C11_Witness ==
    /\ pc = "error"
    /\ Len(calls) = 1 /\ keys = <<2>> /\ skeleton_dict[2] = {}
    /\ \E d \in DOMAIN instance_mask : instance_mask[d] = 1

\* The smallest and the largest coordinate of the points on axis a.
Smallest(points, a) == SetMin({p[a] : p \in points})
Largest(points, a) == SetMax({p[a] : p \in points})

\* C13: for points inside the volume, the crop of every get_instance call
\* has, on every axis, 0 <= ind_min <= ind_max <= extent,
\* ind_min = max(0, smallest coordinate - margin),
\* ind_max = min(extent, largest coordinate + margin) with margin
\* (50, 50, 10), and every point in [ind_min, ind_max).
C13_CropBounds ==
    \A i \in 1..Len(calls) :
        LET c == calls[i]
            points == skeleton_dict[c.id]
        IN  \A a \in Axes :
                /\ 0 <= c.lo[a] /\ c.lo[a] <= c.hi[a] /\ c.hi[a] <= vol_shape[a]
                /\ c.lo[a] = Max2(0, Smallest(points, a) - <<50, 50, 10>>[a])
                /\ c.hi[a] = Min2(vol_shape[a],
                                  Largest(points, a) + <<50, 50, 10>>[a])
                /\ \A p \in points : c.lo[a] <= p[a] /\ p[a] < c.hi[a]

\* A call for two points whose crop is cut at both ends of one axis and at
\* neither end of another.
C13_Witness ==
    \E i \in 1..Len(calls) :
        LET c == calls[i] IN
        /\ Cardinality(skeleton_dict[c.id]) = 2
        /\ \E a \in Axes : c.lo[a] = 0 /\ c.hi[a] = vol_shape[a]
        /\ \E a \in Axes : c.lo[a] > 0 /\ c.hi[a] < vol_shape[a]
        /\ \E a \in Axes :
               Smallest(skeleton_dict[c.id], a) # Largest(skeleton_dict[c.id], a)

====
